---- MODULE Spec2Model ----
(***************************************************************************)
(* Hong Kong weather assistant: the keyword dispatchers, the response      *)
(* normalizer, the model-directed orchestration loop, the session shell    *)
(* of the two clients, and the tool server with its worker pool.           *)
(*                                                                         *)
(* A Python str is a sequence of atoms (characters for queries, larger     *)
(* pieces for payloads and templates); "" is << >> and + is \o.            *)
(***************************************************************************)
EXTENDS Naturals, Sequences, FiniteSets, TLC

(***************************************************************************)
(* Bounds of the model.                                                    *)
(***************************************************************************)
MaxFrags == 3
MaxBlocks == 2
MaxRequests == 5

(***************************************************************************)
(* str helpers.                                                            *)
(***************************************************************************)
UpperChars == <<"A","B","C","D","E","F","G","H","I","J","K","L","M",
                "N","O","P","Q","R","S","T","U","V","W","X","Y","Z">>

LowerChars == <<"a","b","c","d","e","f","g","h","i","j","k","l","m",
                "n","o","p","q","r","s","t","u","v","w","x","y","z">>

\* str.lower() on one character
LowerChar(c) ==
    IF \E i \in 1..26 : UpperChars[i] = c
    THEN LowerChars[CHOOSE i \in 1..26 : UpperChars[i] = c]
    ELSE c

\* str.lower()
Lower(s) == [i \in 1..Len(s) |-> LowerChar(s[i])]

\* the Python test `kw in s` on two strs
Contains(s, kw) ==
    \E i \in 0..Len(s) : i + Len(kw) <= Len(s) /\ SubSeq(s, i + 1, i + Len(kw)) = kw

RECURSIVE Concat(_)
\* "".join(parts)
Concat(parts) == IF parts = << >> THEN << >> ELSE Head(parts) \o Concat(Tail(parts))

RECURSIVE JoinNL(_)
\* "\n".join(parts)
JoinNL(parts) ==
    IF parts = << >> THEN << >>
    ELSE IF Len(parts) = 1 THEN parts[1]
    ELSE parts[1] \o <<"\n">> \o JoinNL(Tail(parts))

(***************************************************************************)
(* Keyword dispatch: the if/elif chain of process_query_direct and of      *)
(* process_query.                                                          *)
(***************************************************************************)
KwCurrent  == <<"c","u","r","r","e","n","t">>
KwNow      == <<"n","o","w">>
KwToday    == <<"t","o","d","a","y">>
KwForecast == <<"f","o","r","e","c","a","s","t">>
KwWeek     == <<"w","e","e","k">>
KwDays     == <<"d","a","y","s">>
KwTomorrow == <<"t","o","m","o","r","r","o","w">>
KwWarning  == <<"w","a","r","n","i","n","g">>
KwAlert    == <<"a","l","e","r","t">>

\* a mutant of DirectBranch: the forecast test is made before the current test
DirectBranchForecastFirst(query) ==
    LET q == Lower(query) IN
    IF Contains(q, KwForecast) \/ Contains(q, KwWeek) \/ Contains(q, KwDays)
       \/ Contains(q, KwTomorrow)
    THEN "forecast"
    ELSE IF Contains(q, KwCurrent) \/ Contains(q, KwNow) \/ Contains(q, KwToday)
    THEN "current"
    ELSE IF Contains(q, KwWarning) \/ Contains(q, KwAlert)
    THEN "warnings"
    ELSE "default"

\* the branch of the if/elif/else chain a query takes
DirectBranch(query) ==
    LET q == Lower(query) IN
    IF Contains(q, KwCurrent) \/ Contains(q, KwNow) \/ Contains(q, KwToday)
    THEN "current"
    ELSE IF Contains(q, KwForecast) \/ Contains(q, KwWeek) \/ Contains(q, KwDays)
            \/ Contains(q, KwTomorrow)
    THEN "forecast"
    ELSE IF Contains(q, KwWarning) \/ Contains(q, KwAlert)
    THEN "warnings"
    ELSE "default"

\* the tool each branch calls
BranchTool(branch) ==
    CASE branch = "current"  -> "get_hk_current_weather"
      [] branch = "forecast" -> "get_hk_forecast"
      [] branch = "warnings" -> "get_hk_weather_warnings"
      [] OTHER               -> "get_hk_current_weather"

\* the arguments every keyword-dispatch branch passes
DirectArgs == [headless |-> FALSE, take_screenshot |-> TRUE]

(***************************************************************************)
(* Python values: a str, a bool, None, a dict (a function from str keys)   *)
(* and a list, each tagged so that values of different types compare.      *)
(***************************************************************************)
VStr(s)  == [t |-> "str", s |-> s]
VBool(b) == [t |-> "bool", b |-> b]
VNull    == [t |-> "null"]
VDict(d) == [t |-> "dict", d |-> d]
VList(l) == [t |-> "list", l |-> l]

EmptyDict == [k \in {} |-> VNull]

\* isinstance(v, dict)
IsDict(v) == v.t = "dict"

\* `key in d`
HasKey(v, key) == IsDict(v) /\ <<key>> \in DOMAIN v.d

\* d.get(key, default)
Get(v, key, default) == IF <<key>> \in DOMAIN v.d THEN v.d[<<key>>] ELSE default

\* bool(v): the truth value Python gives a value
Truthy(v) ==
    CASE v.t = "str"  -> v.s # << >>
      [] v.t = "bool" -> v.b
      [] v.t = "null" -> FALSE
      [] v.t = "dict" -> DOMAIN v.d # {}
      [] v.t = "list" -> v.l # << >>

\* a dict literal {k1: v1, ...} given as a sequence of <<key, value>> pairs
RECURSIVE DictOf(_)
DictOf(pairs) ==
    IF pairs = << >> THEN EmptyDict
    ELSE (<<pairs[Len(pairs)][1]>> :> pairs[Len(pairs)][2])
         @@ DictOf(SubSeq(pairs, 1, Len(pairs) - 1))

(***************************************************************************)
(* JSON text.  A text is a sequence of atoms: the punctuation atoms, the   *)
(* literals true/false/null, and string literals written as a quote atom,  *)
(* the (escaped) atoms of the string, and a closing quote atom.            *)
(***************************************************************************)
Quote    == "\""
EscQuote == "\\\""
EscNL    == "\\n"

\* a mutant of UnescapeAtom: an escape sequence is kept as it is written
UnescapeAtomKeeps(a) == a

EscapeAtom(a)   == IF a = Quote THEN EscQuote ELSE IF a = "\n" THEN EscNL ELSE a
UnescapeAtom(a) == IF a = EscQuote THEN Quote ELSE IF a = EscNL THEN "\n" ELSE a
Escape(s)   == [i \in 1..Len(s) |-> EscapeAtom(s[i])]
Unescape(s) == [i \in 1..Len(s) |-> UnescapeAtom(s[i])]

\* the order in which the keys of a result dict are written
KeyOrder == <<"success", "message", "weather_data", "forecast_data", "warnings_data",
              "screenshot_path", "error", "result", "screenshot",
              "9-day_weather_forecast", "date", "daytime_temperature",
              "nighttime_temperature", "humidity", "weather">>

RECURSIVE JsonDumps(_), DumpMembers(_, _, _), DumpElements(_)
\* json.dumps(v)
JsonDumps(v) ==
    CASE v.t = "str"  -> <<Quote>> \o Escape(v.s) \o <<Quote>>
      [] v.t = "bool" -> IF v.b THEN <<"true">> ELSE <<"false">>
      [] v.t = "null" -> <<"null">>
      [] v.t = "dict" -> <<"{">> \o DumpMembers(v.d, 1, TRUE) \o <<"}">>
      [] v.t = "list" -> <<"[">> \o DumpElements(v.l) \o <<"]">>

DumpMembers(d, i, first) ==
    IF i > Len(KeyOrder) THEN << >>
    ELSE IF <<KeyOrder[i]>> \in DOMAIN d
    THEN (IF first THEN << >> ELSE <<",">>)
         \o <<Quote, KeyOrder[i], Quote, ":">> \o JsonDumps(d[<<KeyOrder[i]>>])
         \o DumpMembers(d, i + 1, FALSE)
    ELSE DumpMembers(d, i + 1, first)

DumpElements(l) ==
    IF l = << >> THEN << >>
    ELSE IF Len(l) = 1 THEN JsonDumps(l[1])
    ELSE JsonDumps(l[1]) \o <<",">> \o DumpElements(Tail(l))

ParseFail == [ok |-> FALSE, v |-> VNull, n |-> 0]

At(t, i) == IF i >= 1 /\ i <= Len(t) THEN t[i] ELSE "<end>"

\* a string literal whose opening quote is t[i]
ParseString(t, i) ==
    IF \E j \in (i + 1)..Len(t) : t[j] = Quote
    THEN LET j == CHOOSE j \in (i + 1)..Len(t) :
                     t[j] = Quote /\ \A k \in (i + 1)..(j - 1) : t[k] # Quote
         IN  [ok |-> TRUE, v |-> VStr(Unescape(SubSeq(t, i + 1, j - 1))), n |-> j + 1]
    ELSE ParseFail

RECURSIVE ParseValue(_, _), ParseMembers(_, _, _), ParseElements(_, _, _)
\* one JSON value starting at t[i]; n is the index after it
ParseValue(t, i) ==
    CASE At(t, i) = Quote   -> ParseString(t, i)
      [] At(t, i) = "true"  -> [ok |-> TRUE, v |-> VBool(TRUE), n |-> i + 1]
      [] At(t, i) = "false" -> [ok |-> TRUE, v |-> VBool(FALSE), n |-> i + 1]
      [] At(t, i) = "null"  -> [ok |-> TRUE, v |-> VNull, n |-> i + 1]
      [] At(t, i) = "{"     -> IF At(t, i + 1) = "}"
                               THEN [ok |-> TRUE, v |-> VDict(EmptyDict), n |-> i + 2]
                               ELSE ParseMembers(t, i + 1, EmptyDict)
      [] At(t, i) = "["     -> IF At(t, i + 1) = "]"
                               THEN [ok |-> TRUE, v |-> VList(<< >>), n |-> i + 2]
                               ELSE ParseElements(t, i + 1, << >>)
      [] OTHER              -> ParseFail

\* the members of an object, t[i] being the quote of the next key
ParseMembers(t, i, d) ==
    IF At(t, i) # Quote THEN ParseFail
    ELSE LET k == ParseString(t, i) IN
         IF ~k.ok \/ At(t, k.n) # ":" THEN ParseFail
         ELSE LET e == ParseValue(t, k.n + 1) IN
              IF ~e.ok THEN ParseFail
              ELSE LET d2 == (k.v.s :> e.v) @@ d IN
                   IF At(t, e.n) = "," THEN ParseMembers(t, e.n + 1, d2)
                   ELSE IF At(t, e.n) = "}"
                   THEN [ok |-> TRUE, v |-> VDict(d2), n |-> e.n + 1]
                   ELSE ParseFail

\* the elements of an array, t[i] starting the next element
ParseElements(t, i, l) ==
    LET e == ParseValue(t, i) IN
    IF ~e.ok THEN ParseFail
    ELSE IF At(t, e.n) = "," THEN ParseElements(t, e.n + 1, Append(l, e.v))
    ELSE IF At(t, e.n) = "]"
    THEN [ok |-> TRUE, v |-> VList(Append(l, e.v)), n |-> e.n + 1]
    ELSE ParseFail

\* str(e) of the json.JSONDecodeError that json.loads raises
JsonErrorText == <<"Expecting value: line 1 column 1 (char 0)">>

\* json.loads(text): the value, or the exception raised
JsonLoads(text) ==
    LET r == ParseValue(text, 1) IN
    IF r.ok /\ r.n = Len(text) + 1
    THEN [raised |-> FALSE, v |-> r.v, msg |-> << >>]
    ELSE [raised |-> TRUE, v |-> VNull, msg |-> JsonErrorText]

(***************************************************************************)
(* str(v) and repr(v) as an f-string writes a value.                       *)
(***************************************************************************)
RECURSIVE PyRepr(_), ReprMembers(_, _, _), ReprElements(_)
PyRepr(v) ==
    CASE v.t = "str"  -> <<"'">> \o v.s \o <<"'">>
      [] v.t = "bool" -> IF v.b THEN <<"True">> ELSE <<"False">>
      [] v.t = "null" -> <<"None">>
      [] v.t = "dict" -> <<"{">> \o ReprMembers(v.d, 1, TRUE) \o <<"}">>
      [] v.t = "list" -> <<"[">> \o ReprElements(v.l) \o <<"]">>

ReprMembers(d, i, first) ==
    IF i > Len(KeyOrder) THEN << >>
    ELSE IF <<KeyOrder[i]>> \in DOMAIN d
    THEN (IF first THEN << >> ELSE <<", ">>)
         \o <<"'", KeyOrder[i], "'", ": ">> \o PyRepr(d[<<KeyOrder[i]>>])
         \o ReprMembers(d, i + 1, FALSE)
    ELSE ReprMembers(d, i + 1, first)

ReprElements(l) ==
    IF l = << >> THEN << >>
    ELSE IF Len(l) = 1 THEN PyRepr(l[1])
    ELSE PyRepr(l[1]) \o <<", ">> \o ReprElements(Tail(l))

\* str(v)
PyStr(v) == IF v.t = "str" THEN v.s ELSE PyRepr(v)

(***************************************************************************)
(* Exceptions.  msg is str(e): the message the exception was raised with,  *)
(* and "" for an exception raised with no argument.                        *)
(***************************************************************************)
Exc(cls, msg) == [cls |-> cls, msg |-> msg]
NoExc == Exc("", << >>)

(***************************************************************************)
(* The result envelope of call_tool and the response normalizer.           *)
(***************************************************************************)
Item(hasText, text) == [hasText |-> hasText, text |-> text]

Envelope(hasContent, content, hasValue, value) ==
    [hasContent |-> hasContent, content |-> content, hasValue |-> hasValue, value |-> value]

\* the envelope FastMCP builds for a tool's return value
TextEnvelope(text) == Envelope(TRUE, <<Item(TRUE, text)>>, FALSE, VNull)

Failure(msg) == VDict(DictOf(<< <<"success", VBool(FALSE)>>, <<"error", VStr(msg)>> >>))

\* a mutant of extract_response_data: the value field is tried before the content list
extract_response_data_value_first(tool_response) ==
    IF tool_response.hasValue THEN tool_response.value
    ELSE IF tool_response.hasContent /\ tool_response.content # << >>
            /\ tool_response.content[1].hasText /\ tool_response.content[1].text # << >>
    THEN LET r == JsonLoads(tool_response.content[1].text) IN
         IF r.raised THEN Failure(r.msg) ELSE r.v
    ELSE Failure(<<"Could not extract response data">>)

extract_response_data(tool_response) ==
    IF tool_response.hasContent /\ tool_response.content # << >>
       /\ tool_response.content[1].hasText /\ tool_response.content[1].text # << >>
    THEN LET r == JsonLoads(tool_response.content[1].text) IN
         IF r.raised THEN Failure(r.msg) ELSE r.v
    ELSE IF tool_response.hasValue THEN tool_response.value
    ELSE Failure(<<"Could not extract response data">>)

(***************************************************************************)
(* The answers of the keyword dispatchers.                                 *)
(***************************************************************************)
\* a mutant of Heading: every answer is headed as current weather
HeadingOfCurrent(branch) == <<"Current Weather in Hong Kong:">>

Heading(branch) ==
    CASE branch = "forecast" -> <<"9-Day Weather Forecast for Hong Kong:">>
      [] branch = "warnings" -> <<"Weather Warnings for Hong Kong:">>
      [] OTHER               -> <<"Current Weather in Hong Kong:">>

DataKey(branch) ==
    CASE branch = "forecast" -> "forecast_data"
      [] branch = "warnings" -> "warnings_data"
      [] OTHER               -> "weather_data"

DataDefault(branch) ==
    CASE branch = "forecast" -> VStr(<<"No forecast data available">>)
      [] branch = "warnings" -> VStr(<<"No warnings data available">>)
      [] OTHER               -> VStr(<<"No weather data available">>)

\* a mutant of ErrorPrefix: the default branch uses the prefix of the current-weather branch
ErrorPrefixOfTool(branch) ==
    CASE branch = "forecast" -> <<"Error retrieving forecast: ">>
      [] branch = "warnings" -> <<"Error retrieving weather warnings: ">>
      [] OTHER               -> <<"Error retrieving current weather: ">>

ErrorPrefix(branch) ==
    CASE branch = "current"  -> <<"Error retrieving current weather: ">>
      [] branch = "forecast" -> <<"Error retrieving forecast: ">>
      [] branch = "warnings" -> <<"Error retrieving weather warnings: ">>
      [] OTHER               -> <<"Error retrieving weather information: ">>

ScreenshotNote == <<"A screenshot has been saved to: ">>

\* response_data.get("success") on a dict
Succeeded(response_data) ==
    IsDict(response_data) /\ Truthy(Get(response_data, "success", VNull))

\* the else branch of each category: the one-line error
ErrorAnswer(branch, response_data) ==
    ErrorPrefix(branch)
    \o (IF IsDict(response_data) THEN PyStr(Get(response_data, "error", VStr(<< >>)))
        ELSE PyStr(response_data))

\* the answer process_query_direct builds from the normalized result
DirectAnswer(branch, response_data) ==
    IF Succeeded(response_data)
    THEN Heading(branch) \o <<"\n\n">>
         \o PyStr(Get(response_data, DataKey(branch), DataDefault(branch)))
         \o (IF branch = "default" THEN << >>
             ELSE <<"\n\n">> \o ScreenshotNote
                  \o PyStr(Get(response_data, "screenshot_path",
                               VStr(<<"No screenshot available">>))))
    ELSE ErrorAnswer(branch, response_data)

(***************************************************************************)
(* format_forecast_data of the plain client.                               *)
(***************************************************************************)
NA == VStr(<<"N/A">>)

RECURSIVE FormatDays(_)
\* the text the for loop builds from a list of day dicts
FormatDays(days) ==
    IF days = << >> THEN << >>
    ELSE <<"Date: ">> \o PyStr(Head(days).d[<<"date">>]) \o <<"\n">>
         \o <<"Temperature: ">> \o PyStr(Get(Head(days), "daytime_temperature", NA))
         \o <<" C - ">> \o PyStr(Get(Head(days), "nighttime_temperature", NA)) \o <<"\n">>
         \o <<"Humidity: ">> \o PyStr(Get(Head(days), "humidity", NA)) \o <<"\n">>
         \o <<"Weather: ">> \o PyStr(Get(Head(days), "weather", NA))
         \o <<" chance of rain", "\n">>
         \o <<"----------------------------------------", "\n">>
         \o FormatDays(Tail(days))

\* the for loop over days runs without raising
DaysIterable(days) ==
    \/ days.t = "list" /\ \A i \in 1..Len(days.l) : HasKey(days.l[i], "date")
    \/ days.t = "str" /\ days.s = << >>
    \/ days.t = "dict" /\ DOMAIN days.d = {}

format_forecast_data(forecast_data_json) ==
    IF forecast_data_json.t # "str" THEN forecast_data_json
    ELSE LET r == JsonLoads(forecast_data_json.s) IN
         IF r.raised \/ ~HasKey(r.v, "9-day_weather_forecast") THEN forecast_data_json
         ELSE LET days == r.v.d[<<"9-day_weather_forecast">>] IN
              IF ~DaysIterable(days) THEN forecast_data_json
              ELSE VStr(IF days.t = "list" THEN FormatDays(days.l) ELSE << >>)

\* the answer process_query builds from the normalized result
PlainAnswer(branch, response_data) ==
    IF branch = "forecast" /\ Succeeded(response_data)
    THEN Heading(branch) \o <<"\n\n">>
         \o PyStr(format_forecast_data(Get(response_data, "forecast_data",
                                           DataDefault(branch))))
         \o <<"\n">> \o ScreenshotNote
         \o PyStr(Get(response_data, "screenshot_path", VStr(<<"No screenshot available">>)))
    ELSE DirectAnswer(branch, response_data)

(***************************************************************************)
(* The keyword dispatchers as functions of the query and of what the one   *)
(* call_tool does: outcome.raised with outcome.exc, or outcome.env.        *)
(***************************************************************************)
Raises(e)  == [raised |-> TRUE, exc |-> e, env |-> Envelope(FALSE, << >>, FALSE, VNull)]
Returns(v) == [raised |-> FALSE, exc |-> NoExc, env |-> v]

ToolCall(tool, args) == [tool |-> tool, args |-> args]

\* what a query-processing entry point hands its caller
Returned(text, calls) == [raised |-> FALSE, exc |-> NoExc, text |-> text, calls |-> calls]
Raised(e, calls)      == [raised |-> TRUE, exc |-> e, text |-> << >>, calls |-> calls]

\* a mutant of DirectBody: the tool is called a second time before the answer is built
DirectBodyCallsTwice(q, outcome) ==
    LET branch == DirectBranch(q) IN
    IF outcome.raised
    THEN Raised(outcome.exc, <<ToolCall(BranchTool(branch), DirectArgs)>>)
    ELSE Returned(DirectAnswer(branch, extract_response_data(outcome.env)),
                  <<ToolCall(BranchTool(branch), DirectArgs),
                    ToolCall(BranchTool(branch), DirectArgs)>>)

\* the try block of process_query_direct
DirectBody(q, outcome) ==
    LET branch == DirectBranch(q) IN
    IF outcome.raised
    THEN Raised(outcome.exc, <<ToolCall(BranchTool(branch), DirectArgs)>>)
    ELSE Returned(DirectAnswer(branch, extract_response_data(outcome.env)),
                  <<ToolCall(BranchTool(branch), DirectArgs)>>)

\* a mutant of PlainBody: the plain client asks for a headless browser
PlainBodyHeadless(q, outcome) ==
    LET branch == DirectBranch(q) IN
    IF outcome.raised
    THEN Raised(outcome.exc, <<ToolCall(BranchTool(branch), [headless |-> TRUE, take_screenshot |-> TRUE])>>)
    ELSE Returned(PlainAnswer(branch, extract_response_data(outcome.env)),
                  <<ToolCall(BranchTool(branch), [headless |-> TRUE, take_screenshot |-> TRUE])>>)

\* the try block of process_query
PlainBody(q, outcome) ==
    LET branch == DirectBranch(q) IN
    IF outcome.raised
    THEN Raised(outcome.exc, <<ToolCall(BranchTool(branch), DirectArgs)>>)
    ELSE Returned(PlainAnswer(branch, extract_response_data(outcome.env)),
                  <<ToolCall(BranchTool(branch), DirectArgs)>>)

\* a mutant of QueryHandler: the exception is raised again
QueryHandlerReraises(r) == r

\* `except Exception as e: return f"Error processing query: {str(e)}"`
QueryHandler(r) ==
    IF r.raised THEN Returned(<<"Error processing query: ">> \o r.exc.msg, r.calls) ELSE r

process_query_direct(q, outcome) == QueryHandler(DirectBody(q, outcome))

process_query(q, outcome) == QueryHandler(PlainBody(q, outcome))

(***************************************************************************)
(* The weather fetcher of the server.  ext is what the browser automation  *)
(* does during one fetch: ext.stage is where it raises ext.exc ("setup":   *)
(* entering the NovaAct session, "act": the extraction instruction,        *)
(* "exit": leaving the session, "none": nowhere), ext.response is          *)
(* result.response, and ext.shot is the exception page.screenshot raises   *)
(* (NoExc for none) when it saves to ext.path.                             *)
(***************************************************************************)
Ext(stage, exc, response, shot, path) ==
    [stage |-> stage, exc |-> exc, response |-> response, shot |-> shot, path |-> path]

\* a mutant of capture_screenshot: the exception of page.screenshot is not caught
capture_screenshot_uncaught(ext) ==
    IF ext.shot # NoExc
    THEN [raised |-> TRUE, exc |-> ext.shot, v |-> VNull]
    ELSE [raised |-> FALSE, exc |-> NoExc,
          v |-> VDict(DictOf(<< <<"screenshot_path", VStr(ext.path)>>,
                                <<"success", VBool(TRUE)>> >>))]

capture_screenshot(ext) ==
    IF ext.shot # NoExc
    THEN [raised |-> FALSE, exc |-> NoExc,
          v |-> VDict(DictOf(<< <<"error", VStr(ext.shot.msg)>>,
                                <<"success", VBool(FALSE)>> >>))]
    ELSE [raised |-> FALSE, exc |-> NoExc,
          v |-> VDict(DictOf(<< <<"screenshot_path", VStr(ext.path)>>,
                                <<"success", VBool(TRUE)>> >>))]

SuccessMessage(kind, days) ==
    CASE kind = "forecast" -> <<"Successfully retrieved ", ToString(days),
                                "-day forecast for Hong Kong">>
      [] kind = "warnings" -> <<"Successfully retrieved weather warnings for Hong Kong">>
      [] OTHER             -> <<"Successfully retrieved current weather in Hong Kong">>

FailurePrefix(kind) ==
    CASE kind = "forecast" -> <<"Error retrieving forecast: ">>
      [] kind = "warnings" -> <<"Error retrieving weather warnings: ">>
      [] OTHER             -> <<"Error retrieving current weather: ">>

\* a mutant of ErrorData: the exception is raised again instead of being returned
ErrorDataReraises(kind, e) == [raised |-> TRUE, exc |-> e, v |-> VNull]

\* the except clause of a fetch and of a tool entry point: the failure dict
ErrorData(kind, e) ==
    [raised |-> FALSE, exc |-> NoExc,
     v |-> VDict(DictOf(<< <<"success", VBool(FALSE)>>,
                           <<"message", VStr(FailurePrefix(kind) \o e.msg)>>,
                           <<"error", VStr(e.msg)>> >>))]

\* the body of run_nova_act_current_weather / _forecast / _warnings
run_nova_act(kind, days, headless, take_screenshot, ext) ==
    IF ext.stage = "setup" \/ ext.stage = "act" THEN ErrorData(kind, ext.exc)
    ELSE LET shot == IF take_screenshot THEN capture_screenshot(ext)
                     ELSE [raised |-> FALSE, exc |-> NoExc, v |-> VNull] IN
         IF shot.raised THEN ErrorData(kind, shot.exc)
         ELSE IF ext.stage = "exit" THEN ErrorData(kind, ext.exc)
         ELSE [raised |-> FALSE, exc |-> NoExc,
               v |-> VDict(DictOf(<<
                   <<"success", VBool(TRUE)>>,
                   <<"message", VStr(SuccessMessage(kind, days))>>,
                   <<DataKey(kind), ext.response>>,
                   <<"screenshot_path",
                     IF shot.v # VNull THEN Get(shot.v, "screenshot_path", VNull)
                     ELSE VNull>> >>))]

run_nova_act_current_weather(headless, take_screenshot, ext) ==
    run_nova_act("current", 9, headless, take_screenshot, ext)

run_nova_act_forecast(days, headless, take_screenshot, ext) ==
    run_nova_act("forecast", days, headless, take_screenshot, ext)

run_nova_act_warnings(headless, take_screenshot, ext) ==
    run_nova_act("warnings", 9, headless, take_screenshot, ext)

ToolKind(tool) ==
    CASE tool = "get_hk_forecast"         -> "forecast"
      [] tool = "get_hk_weather_warnings" -> "warnings"
      [] OTHER                            -> "current"

Tools == <<"get_hk_current_weather", "get_hk_forecast", "get_hk_weather_warnings">>

\* the fetch a tool runs, with the defaults of its signature for a missing argument
RunTool(tool, args, ext) ==
    CASE tool = "get_hk_forecast" ->
            run_nova_act_forecast(9, args.headless, args.take_screenshot, ext)
      [] tool = "get_hk_weather_warnings" ->
            run_nova_act_warnings(args.headless, args.take_screenshot, ext)
      [] OTHER ->
            run_nova_act_current_weather(args.headless, args.take_screenshot, ext)

(***************************************************************************)
(* The inputs the model draws from.                                        *)
(***************************************************************************)
EmptyFault   == Exc("TimeoutError", << >>)
BrowserFault == Exc("ActError", <<"browser session failed">>)
ShotFault    == Exc("Error", <<"screenshot failed">>)
ToolFault    == Exc("McpError", <<"Connection closed">>)
ModelFault   == Exc("ClientError", <<"ThrottlingException">>)

ScreenshotPath == <<"/tmp/", "shot.png">>

ForecastJson ==
    JsonDumps(VDict(DictOf(<< <<"9-day_weather_forecast",
        VList(<< VDict(DictOf(<< <<"date", VStr(<<"7 Nov">>)>>,
                                 <<"weather", VStr(<<"Low">>)>> >>)) >>)>> >>)))

Responses(kind) ==
    CASE kind = "forecast" -> {VStr(<<"Mostly cloudy">>), VStr(ForecastJson)}
      [] kind = "warnings" -> {VStr(<<"No warnings in force">>)}
      [] OTHER             -> {VStr(<<"Sunny, 28 C">>)}

\* what the browser automation can do during one fetch
Exts(kind) ==
    {Ext("none", NoExc, r, sh, ScreenshotPath) :
        r \in Responses(kind), sh \in {NoExc, ShotFault}}
    \cup {Ext("setup", EmptyFault, VNull, NoExc, ScreenshotPath),
          Ext("act", BrowserFault, VNull, NoExc, ScreenshotPath),
          Ext("exit", BrowserFault, VStr(<<"lost">>), NoExc, ScreenshotPath)}

\* envelopes that carry no tool result
OddEnvelopes ==
    {TextEnvelope(<<"Error executing tool">>),
     TextEnvelope(<<"[", "]">>),
     Envelope(TRUE, << >>, TRUE, VStr(<<"raw value">>)),
     Envelope(TRUE, << >>, FALSE, VNull)}

\* what one call_tool request can do, seen from the client
CallOutcomes(tool, args) ==
    {Returns(TextEnvelope(JsonDumps(RunTool(tool, args, ext).v))) : ext \in Exts(ToolKind(tool))}
    \cup {Returns(e) : e \in OddEnvelopes}
    \cup {Raises(ToolFault), Raises(EmptyFault)}

\* what the call_tool request of each keyword-dispatch branch can do
DirectOutcomesCurrent  == CallOutcomes("get_hk_current_weather", DirectArgs)
DirectOutcomesForecast == CallOutcomes("get_hk_forecast", DirectArgs)
DirectOutcomesWarnings == CallOutcomes("get_hk_weather_warnings", DirectArgs)

DirectOutcomes(tool) ==
    CASE tool = "get_hk_forecast"         -> DirectOutcomesForecast
      [] tool = "get_hk_weather_warnings" -> DirectOutcomesWarnings
      [] OTHER                            -> DirectOutcomesCurrent

\* pieces of a query, in characters
Fragments ==
    {<<"t","o">>, <<"d","a","y">>, <<"s">>, <<"N","o","w">>, <<"W","E","E","K">>,
     <<"a","l","e","r","t">>, <<"m","o","r","r","o","w">>, <<"x","y","z">>}

\* the queries of at most MaxFrags pieces
FragQueries ==
    {Concat(fs) : fs \in UNION {[1..n -> Fragments] : n \in 0..MaxFrags}}

(***************************************************************************)
(* The model endpoint: content blocks, replies, and the tool result        *)
(* process_query_with_llm hands back to the model.                         *)
(***************************************************************************)
Block(kind, text, name, input, id, json) ==
    [kind |-> kind, text |-> text, name |-> name, input |-> input, id |-> id, json |-> json]

NoArgs == [headless |-> FALSE, take_screenshot |-> FALSE]

TextBlock(text)           == Block("text", text, "", NoArgs, "", VNull)
ToolUse(name, input, id)  == Block("toolUse", << >>, name, input, id, VNull)
ToolResultBlock(id, json) == Block("toolResult", << >>, "", NoArgs, id, json)
OtherBlock                == Block("other", << >>, "", NoArgs, "", VNull)

Message(role, content) == [role |-> role, content |-> content]

\* result_for_bedrock: lines 189-212
result_for_bedrock(tool_name, result_content) ==
    IF IsDict(result_content) /\ HasKey(result_content, "success")
    THEN IF Truthy(result_content.d[<<"success">>])
         THEN IF tool_name \in {"get_hk_current_weather", "get_hk_forecast",
                                "get_hk_weather_warnings"}
              THEN VDict(DictOf(<<
                       <<"result", Get(result_content, DataKey(ToolKind(tool_name)),
                                       DataDefault(ToolKind(tool_name)))>>,
                       <<"screenshot", Get(result_content, "screenshot_path",
                                           VStr(<<"No screenshot available">>))>> >>))
              ELSE VDict(DictOf(<< <<"result", result_content>> >>))
         ELSE VDict(DictOf(<< <<"error", Get(result_content, "error",
                                             VStr(<<"Unknown error">>))>> >>))
    ELSE VDict(DictOf(<< <<"result", result_content>> >>))

CallingMarker(tool_name) == <<"[Calling tool ", tool_name, "]">>

\* the arguments the model asks a tool to be called with
LlmArgs == [headless |-> TRUE, take_screenshot |-> FALSE]

BlockChoices ==
    {TextBlock(<<"Let me check.">>),
     ToolUse("get_hk_current_weather", LlmArgs, "tooluse_1"),
     ToolUse("get_hk_forecast", LlmArgs, "tooluse_2"),
     OtherBlock}

\* the content of the model's reply to the query: at most MaxBlocks blocks
Replies == UNION {[1..n -> BlockChoices] : n \in 0..MaxBlocks}

FollowUpText == <<"It is sunny.">>

\* the content of the model's reply to a tool result
FollowUps ==
    {<<TextBlock(FollowUpText)>>,
     <<TextBlock(FollowUpText), ToolUse("get_hk_weather_warnings", LlmArgs, "tooluse_3")>>,
     <<ToolUse("get_hk_weather_warnings", LlmArgs, "tooluse_3")>>,
     << >>}

\* what a converse call can raise
ModelFaults == {ModelFault}

\* what a call_tool request does during a session
SessionOutcomes(tool, args) ==
    {Returns(TextEnvelope(JsonDumps(RunTool(tool, args, ext).v))) :
        ext \in {Ext("none", NoExc, CHOOSE r \in Responses(ToolKind(tool)) : TRUE,
                     NoExc, ScreenshotPath),
                 Ext("act", BrowserFault, VNull, NoExc, ScreenshotPath)}}
    \cup {Returns(TextEnvelope(<<"Error executing tool">>)), Raises(ToolFault)}

SessionOutcomesDirect ==
    [t \in {Tools[i] : i \in 1..Len(Tools)} |-> SessionOutcomes(t, DirectArgs)]

SessionOutcomesLlm ==
    [t \in {Tools[i] : i \in 1..Len(Tools)} |-> SessionOutcomes(t, LlmArgs)]

\* the lines the user types
LineToday == <<"t","o","d","a","y">>
LineWeek  == <<"W","E","E","K">>
LineXyz   == <<"x","y","z">>
LineExit  == <<"e","x","i","t">>
LineQuit  == <<"Q","u","I","t">>

SessionLines == {LineToday, LineWeek, LineXyz, LineExit, LineQuit}

\* a mutant of IsExitLine: the line is compared without lower()
IsExitLineExact(line) == line \in {<<"e","x","i","t">>, <<"q","u","i","t">>}

\* query.lower() in ["exit", "quit"]
IsExitLine(line) == Lower(line) \in {<<"e","x","i","t">>, <<"q","u","i","t">>}

\* the server script paths the client is started with
ServerPaths == {<<"hk_weather_mcp_server", ".py">>, <<"hk_weather_mcp_server", ".sh">>}

\* server_script_path.endswith(".py")
EndsWithPy(path) == path # << >> /\ path[Len(path)] = ".py"

ValueErrorPy   == Exc("ValueError", <<"Server script must be a .py file">>)
ConnectFault   == Exc("OSError", <<"cannot start the server">>)
EOFError       == Exc("EOFError", <<"EOF when reading a line">>)
KeyboardInterrupt == Exc("KeyboardInterrupt", << >>)
KeyErrorText   == Exc("KeyError", <<"'text'">>)
IndexErrorList == Exc("IndexError", <<"list index out of range">>)

(***************************************************************************)
(* State.                                                                  *)
(***************************************************************************)
VARIABLES
    client,          \* which program runs: "agentic" or "plain"
    pc,              \* where the client is
    query,           \* the query being processed
    calls,           \* the call_tool requests issued for the query, in order
    result,          \* what the entry point handed back for the query
    transport,       \* the stdio transport on the exit stack: "none", "open", "released"
    closes,          \* how many times close() has run
    exitExc,         \* the exception interactive_session is ending with
    available_tools, \* self.available_tools
    reply,           \* the content blocks of the model's reply to the query
    idx,             \* the content block the for loop is at
    messages,        \* the conversation state
    final_responses, \* the list the answer is joined from
    converses,       \* the converse calls made for the query
    directRuns,      \* the process_query_direct invocations for the query
    caught,          \* the exceptions the model-handling block has raised for the query
    toolOutcome      \* what the latest call_tool request of the query did

clientVars == <<client, pc, query, calls, result, transport, closes, exitExc,
                available_tools, reply, idx, messages, final_responses, converses,
                directRuns, caught, toolOutcome>>

VARIABLES
    inbox,           \* the requests the server has received and not yet begun to handle
    loop,            \* the request whose handler holds the server's event loop
    queue,           \* the work queue of thread_pool
    running,         \* the requests whose fetch a worker thread is executing
    futures,         \* the future of each submitted fetch
    responses,       \* the response the server has sent for each request
    requests,        \* the requests received so far, by id
    faults,          \* the exception raised during each request's submission or fetch
    submitted,       \* the ids of the fetches in the order they were submitted
    started          \* the ids of the fetches in the order workers began them

serverVars == <<inbox, loop, queue, running, futures, responses, requests, faults,
                submitted, started>>

VARIABLES
    sample           \* the arguments a function is applied to on its own, and what it gave

NoSample == [done |-> FALSE]

vars == <<clientVars, serverVars, sample>>

NoOutcome == Returns(Envelope(FALSE, << >>, FALSE, VNull))

\* the requests of cs, each marked with the dispatcher that issued it
Tagged(cs, by) ==
    [i \in 1..Len(cs) |-> [tool |-> cs[i].tool, args |-> cs[i].args, by |-> by]]

NoResult == [done |-> FALSE, raised |-> FALSE, exc |-> NoExc, text |-> << >>]

Done(r) == [done |-> TRUE, raised |-> r.raised, exc |-> r.exc, text |-> r.text]

(***************************************************************************)
(* The keyword dispatchers applied to every query of FragQueries.          *)
(***************************************************************************)
\* the server before any request
ServerIdle ==
    /\ inbox = << >>
    /\ loop = 0
    /\ queue = << >>
    /\ running = {}
    /\ futures = << >>
    /\ responses = << >>
    /\ requests = << >>
    /\ faults = << >>
    /\ submitted = << >>
    /\ started = << >>
    /\ sample = NoSample

\* the session state of a client that is not in a session
SessionIdle ==
    /\ transport = "none"
    /\ closes = 0
    /\ exitExc = NoExc
    /\ available_tools = << >>

\* the per-query state before a query is processed
QueryIdle ==
    /\ calls = << >>
    /\ result = NoResult
    /\ reply = << >>
    /\ idx = 0
    /\ messages = << >>
    /\ final_responses = << >>
    /\ converses = 0
    /\ directRuns = 0
    /\ caught = << >>
    /\ toolOutcome = NoOutcome

\* the per-query state is dropped when the entry point is left
DiscardQuery ==
    /\ query' = << >>
    /\ calls' = << >>
    /\ result' = NoResult
    /\ reply' = << >>
    /\ idx' = 0
    /\ messages' = << >>
    /\ final_responses' = << >>
    /\ converses' = 0
    /\ directRuns' = 0
    /\ caught' = << >>
    /\ toolOutcome' = NoOutcome

sessionVars == <<transport, closes, exitExc, available_tools>>
llmVars     == <<reply, idx, messages, final_responses, converses, directRuns, caught,
                 toolOutcome>>

InitDispatch ==
    /\ client \in {"agentic", "plain"}
    /\ pc = "Ready"
    /\ query \in FragQueries
    /\ SessionIdle
    /\ QueryIdle
    /\ ServerIdle

\* AgenticWeatherAssistant.process_query_direct(query)
DispatchDirect ==
    /\ pc = "Ready" /\ client = "agentic"
    /\ \E o \in DirectOutcomes(BranchTool(DirectBranch(query))) :
          LET r == process_query_direct(query, o) IN
          /\ calls' = Tagged(r.calls, "keyword")
          /\ result' = Done(r)
          /\ toolOutcome' = o
    /\ pc' = "Done"
    /\ UNCHANGED <<client, query, sessionVars, reply, idx, messages, final_responses,
                   converses, directRuns, caught>>
    /\ UNCHANGED <<serverVars, sample>>

\* HKWeatherMCPClient.process_query(query)
DispatchPlain ==
    /\ pc = "Ready" /\ client = "plain"
    /\ \E o \in DirectOutcomes(BranchTool(DirectBranch(query))) :
          LET r == process_query(query, o) IN
          /\ calls' = Tagged(r.calls, "keyword")
          /\ result' = Done(r)
          /\ toolOutcome' = o
    /\ pc' = "Done"
    /\ UNCHANGED <<client, query, sessionVars, reply, idx, messages, final_responses,
                   converses, directRuns, caught>>
    /\ UNCHANGED <<serverVars, sample>>

NextDispatch == DispatchDirect \/ DispatchPlain

SpecDispatch == InitDispatch /\ [][NextDispatch]_vars

(***************************************************************************)
(* C1: keyword dispatch selects, for every query, exactly one tool, the    *)
(* one of the highest-priority category whose keyword occurs in the        *)
(* lowercased query (current, then forecast, then warnings), and the       *)
(* current-weather tool when no keyword occurs; the selection depends on   *)
(* the query alone.                                                        *)
(***************************************************************************)
HasAny(q, kws) == LET l == Lower(q) IN \E kw \in kws : Contains(l, kw)

CurrentKws  == {KwCurrent, KwNow, KwToday}
ForecastKws == {KwForecast, KwWeek, KwDays, KwTomorrow}
WarningKws  == {KwWarning, KwAlert}

SelectedTools == {calls[i].tool : i \in 1..Len(calls)}

C1_KeywordDispatchTotal ==
    pc = "Done" =>
        /\ Cardinality(SelectedTools) = 1
        /\ HasAny(query, CurrentKws) => SelectedTools = {"get_hk_current_weather"}
        /\ ~HasAny(query, CurrentKws) /\ HasAny(query, ForecastKws)
              => SelectedTools = {"get_hk_forecast"}
        /\ ~HasAny(query, CurrentKws) /\ ~HasAny(query, ForecastKws)
           /\ HasAny(query, WarningKws)
              => SelectedTools = {"get_hk_weather_warnings"}
        /\ ~HasAny(query, CurrentKws) /\ ~HasAny(query, ForecastKws)
           /\ ~HasAny(query, WarningKws)
              => SelectedTools = {"get_hk_current_weather"}

\* a query with keywords of two categories has been dispatched to the first
C1_Witness ==
    /\ pc = "Done"
    /\ HasAny(query, CurrentKws) /\ HasAny(query, ForecastKws)
    /\ SelectedTools = {"get_hk_current_weather"}

\* the normalized result of the one call_tool of the query
Normalized == extract_response_data(toolOutcome.env)

Answered1 == result.done /\ ~toolOutcome.raised

(***************************************************************************)
(* C15: a keyword dispatch issues exactly one call_tool, to the tool of    *)
(* the selected branch with headless = false and take_screenshot = true,   *)
(* and its answer is the rendering of that call's normalized result.       *)
(***************************************************************************)
C15_ExactlyOneCallPerDispatch ==
    result.done =>
        /\ Len(calls) = 1
        /\ calls[1].tool = BranchTool(DirectBranch(query))
        /\ calls[1].args = [headless |-> FALSE, take_screenshot |-> TRUE]
        /\ ~toolOutcome.raised =>
              result.text = IF client = "plain"
                            THEN PlainAnswer(DirectBranch(query), Normalized)
                            ELSE DirectAnswer(DirectBranch(query), Normalized)

\* the agentic dispatcher has answered a warnings query from its one call
C15_Witness ==
    /\ Answered1 /\ client = "agentic"
    /\ calls = <<[tool |-> "get_hk_weather_warnings",
                  args |-> [headless |-> FALSE, take_screenshot |-> TRUE],
                  by |-> "keyword"]>>
    /\ Succeeded(Normalized)
    /\ result.text[1] = "Weather Warnings for Hong Kong:"

NoteRendered ==
    \E i \in 1..Len(result.text) : result.text[i] = "A screenshot has been saved to: "

PathPresent ==
    HasKey(Normalized, "screenshot_path") /\ Get(Normalized, "screenshot_path", VNull) # VNull

(***************************************************************************)
(* C16: a success answer holds the screenshot note exactly when the tool   *)
(* result carries a screenshot path that is not null, in every branch.     *)
(***************************************************************************)
C16_ScreenshotNoteIffPath ==
    Answered1 /\ Succeeded(Normalized) => (NoteRendered <=> PathPresent)

FailureResult ==
    /\ Answered1 /\ IsDict(Normalized) /\ ~Succeeded(Normalized)
    /\ Get(Normalized, "error", VNull).t = "str"

ErrorText == Get(Normalized, "error", VNull).s

(***************************************************************************)
(* C17 as stated: a failure result is answered with the prefix of the      *)
(* selected tool ('Error retrieving current weather: ' whenever the        *)
(* current-weather tool was called) followed by the result's error string. *)
(***************************************************************************)
C17_ErrorPrefixByTool ==
    FailureResult =>
        result.text =
            (CASE calls[1].tool = "get_hk_forecast" -> <<"Error retrieving forecast: ">>
               [] calls[1].tool = "get_hk_weather_warnings" ->
                      <<"Error retrieving weather warnings: ">>
               [] OTHER -> <<"Error retrieving current weather: ">>) \o ErrorText

(***************************************************************************)
(* C17, amended: the prefix is that of the dispatch branch; the default    *)
(* branch, which also calls the current-weather tool, answers with         *)
(* 'Error retrieving weather information: '.                               *)
(***************************************************************************)
C17_ErrorPrefixByBranch ==
    FailureResult =>
        result.text =
            (CASE HasAny(query, CurrentKws)  -> <<"Error retrieving current weather: ">>
               [] HasAny(query, ForecastKws) -> <<"Error retrieving forecast: ">>
               [] HasAny(query, WarningKws)  -> <<"Error retrieving weather warnings: ">>
               [] OTHER -> <<"Error retrieving weather information: ">>) \o ErrorText

\* a query without a keyword has been answered with the failure of the current-weather tool
C17_Witness ==
    /\ FailureResult
    /\ ~HasAny(query, CurrentKws \cup ForecastKws \cup WarningKws)
    /\ calls[1].tool = "get_hk_current_weather"
    /\ ErrorText = BrowserFault.msg
    /\ result.text = <<"Error retrieving weather information: ">> \o BrowserFault.msg

KeywordSelected == HasAny(query, CurrentKws \cup ForecastKws \cup WarningKws)

\* the payload of a success result, when it is a string
Payload == Get(Normalized, DataKey(ToolKind(calls[1].tool)), VNull)

SuccessWithText ==
    /\ Answered1 /\ KeywordSelected /\ Succeeded(Normalized)
    /\ Payload.t = "str"

HeadingOfTool ==
    CASE calls[1].tool = "get_hk_forecast"         -> "9-Day Weather Forecast for Hong Kong:"
      [] calls[1].tool = "get_hk_weather_warnings" -> "Weather Warnings for Hong Kong:"
      [] OTHER                                     -> "Current Weather in Hong Kong:"

\* the answer is the heading, a blank line, and then body
HeadedBy(body) ==
    /\ Len(result.text) >= 2 + Len(body)
    /\ result.text[1] = HeadingOfTool
    /\ result.text[2] = "\n\n"
    /\ SubSeq(result.text, 3, 2 + Len(body)) = body

Init ==
    /\ client \in {"agentic", "plain"}
    /\ pc = "Disconnected"
    /\ query = << >>
    /\ SessionIdle
    /\ QueryIdle
    /\ ServerIdle

\* a mutant of RaiseInSession: the exception leaves without the finally clause
RaiseSkipsFinally(e) == pc' = "Left" /\ exitExc' = e

\* an exception raised inside the try of interactive_session reaches its finally
RaiseInSession(e) == pc' = "Finally" /\ exitExc' = e

\* a mutant of BreakLoop: the loop is left without the finally clause
BreakSkipsFinally == pc' = "Left"

\* `break` leaves the while loop, and the try, through the finally clause
BreakLoop == pc' = "Finally"

\* connect_to_server(server_script_path), called by interactive_session
Connect ==
    /\ pc = "Disconnected"
    /\ \E path \in ServerPaths :
          IF ~EndsWithPy(path)
          THEN /\ RaiseInSession(ValueErrorPy)
               /\ UNCHANGED <<transport, available_tools>>
          ELSE \/ /\ RaiseInSession(ConnectFault)
                  /\ transport' \in {"none", "open"}
                  /\ UNCHANGED available_tools
               \/ /\ transport' = "open"
                  /\ \E tools \in {Tools, << >>} :
                        available_tools' = IF client = "agentic" THEN tools ELSE << >>
                  /\ pc' = "AwaitingInput"
                  /\ UNCHANGED exitExc
    /\ UNCHANGED <<client, query, calls, result, closes, llmVars>>
    /\ UNCHANGED <<serverVars, sample>>

\* the start of process_query_with_llm: lines 130-149
StartLlm(line) ==
    IF available_tools = << >>
    THEN /\ result' = Done(Returned(<<"No tools available on the server.">>, << >>))
         /\ messages' = << >>
         /\ pc' = "Print"
    ELSE /\ result' = NoResult
         /\ messages' = <<Message("user", <<TextBlock(line)>>)>>
         /\ pc' = "Converse"

\* input(...) and the branch on the exit keywords
ReadInput ==
    /\ pc = "AwaitingInput"
    /\ \/ \E line \in SessionLines :
             IF IsExitLine(line)
             THEN /\ BreakLoop
                  /\ UNCHANGED <<query, calls, result, exitExc, llmVars>>
             ELSE /\ query' = line
                  /\ calls' = << >>
                  /\ reply' = << >> /\ idx' = 0 /\ final_responses' = << >>
                  /\ converses' = 0 /\ directRuns' = 0 /\ caught' = << >>
                  /\ toolOutcome' = NoOutcome
                  /\ IF client = "agentic" THEN StartLlm(line)
                     ELSE result' = NoResult /\ messages' = << >> /\ pc' = "Plain"
                  /\ UNCHANGED exitExc
       \/ /\ RaiseInSession(EOFError)
          /\ UNCHANGED <<query, calls, result, llmVars>>
    /\ UNCHANGED <<client, transport, closes, available_tools>>
    /\ UNCHANGED <<serverVars, sample>>

\* bedrock_runtime.converse for the query: lines 152-164
LlmConverse ==
    /\ pc = "Converse"
    /\ converses' = converses + 1
    /\ \/ \E f \in ModelFaults :
             /\ caught' = Append(caught, f)
             /\ pc' = "Fallback"
             /\ UNCHANGED <<reply, idx>>
       \/ \E r \in Replies :
             /\ reply' = r
             /\ idx' = 1
             /\ pc' = "Blocks"
             /\ UNCHANGED caught
    /\ UNCHANGED <<client, query, calls, result, sessionVars, messages,
                   final_responses, directRuns, toolOutcome>>
    /\ UNCHANGED <<serverVars, sample>>

\* a mutant of BlockIsToolUse: a plain else, every block that is not text is a tool use
BlockIsNotText(block) == block.kind # "text"

\* `elif "toolUse" in content_block`
BlockIsToolUse(block) == block.kind = "toolUse"

\* one turn of the for loop over the reply's content blocks, and the return after it
LlmBlock ==
    /\ pc = "Blocks"
    /\ IF idx > Len(reply)
       THEN /\ result' = Done(Returned(JoinNL(final_responses), calls))
            /\ pc' = "Print"
            /\ UNCHANGED <<idx, final_responses>>
       ELSE IF reply[idx].kind = "text"
       THEN /\ final_responses' = Append(final_responses, reply[idx].text)
            /\ idx' = idx + 1
            /\ UNCHANGED <<pc, result>>
       ELSE IF BlockIsToolUse(reply[idx])
       THEN /\ final_responses' = Append(final_responses, CallingMarker(reply[idx].name))
            /\ pc' = "ToolCall"
            /\ UNCHANGED <<idx, result>>
       ELSE /\ idx' = idx + 1
            /\ UNCHANGED <<pc, result, final_responses>>
    /\ UNCHANGED <<client, query, calls, sessionVars, reply, messages, converses,
                   directRuns, caught, toolOutcome>>
    /\ UNCHANGED <<serverVars, sample>>

\* a mutant of RoundTrip: the assistant's tool-request message is not appended
RoundTripNoAssistant(response_content, tool_use_id, for_bedrock) ==
    <<Message("user", <<ToolResultBlock(tool_use_id, for_bedrock)>>)>>

\* the two messages a tool invocation adds to the conversation: lines 215-229
RoundTrip(response_content, tool_use_id, for_bedrock) ==
    <<Message("assistant", response_content),
      Message("user", <<ToolResultBlock(tool_use_id, for_bedrock)>>)>>

\* what the call_tool request of a tool-use block can do
LlmOutcomes(name) ==
    IF name \in DOMAIN SessionOutcomesLlm THEN SessionOutcomesLlm[name]
    ELSE {Returns(TextEnvelope(<<"Unknown tool">>)), Raises(ToolFault)}

\* session.call_tool for a tool-use block, and the tool-result message: lines 183-229
LlmCallTool ==
    /\ pc = "ToolCall"
    /\ calls' = calls \o Tagged(<<ToolCall(reply[idx].name, reply[idx].input)>>, "model")
    /\ \E o \in LlmOutcomes(reply[idx].name) :
          /\ toolOutcome' = o
          /\ IF o.raised
             THEN /\ caught' = Append(caught, o.exc)
                  /\ pc' = "Fallback"
                  /\ UNCHANGED messages
             ELSE /\ messages' = messages \o
                        RoundTrip(reply, reply[idx].id,
                                  result_for_bedrock(reply[idx].name,
                                                     extract_response_data(o.env)))
                  /\ pc' = "FollowUp"
                  /\ UNCHANGED caught
    /\ UNCHANGED <<client, query, result, sessionVars, reply, idx, final_responses,
                   converses, directRuns>>
    /\ UNCHANGED <<serverVars, sample>>

\* a mutant of LlmFollowUp: an agent loop, which calls the tool a follow-up reply asks
\* for and converses again
LlmFollowUpAgentLoop ==
    /\ pc = "FollowUp"
    /\ converses' = converses + 1
    /\ \/ \E f \in ModelFaults :
             /\ caught' = Append(caught, f)
             /\ pc' = "Fallback"
             /\ UNCHANGED <<idx, final_responses, calls>>
       \/ \E c \in FollowUps :
             IF c = << >>
             THEN /\ caught' = Append(caught, IndexErrorList)
                  /\ pc' = "Fallback"
                  /\ UNCHANGED <<idx, final_responses, calls>>
             ELSE IF \E i \in 1..Len(c) : c[i].kind = "toolUse"
             THEN /\ calls' = calls \o
                        Tagged(<<ToolCall(c[CHOOSE i \in 1..Len(c) : c[i].kind = "toolUse"].name,
                                          LlmArgs)>>, "model")
                  /\ pc' = "FollowUp"
                  /\ UNCHANGED <<idx, final_responses, caught>>
             ELSE /\ final_responses' = Append(final_responses, c[1].text)
                  /\ idx' = idx + 1
                  /\ pc' = "Blocks"
                  /\ UNCHANGED <<caught, calls>>
    /\ UNCHANGED <<client, query, result, sessionVars, reply, messages, directRuns,
                   toolOutcome>>
    /\ UNCHANGED <<serverVars, sample>>

\* the follow-up converse call and the text taken from its reply: lines 232-242
LlmFollowUp ==
    /\ pc = "FollowUp"
    /\ converses' = converses + 1
    /\ \/ \E f \in ModelFaults :
             /\ caught' = Append(caught, f)
             /\ pc' = "Fallback"
             /\ UNCHANGED <<idx, final_responses>>
       \/ \E c \in FollowUps :
             IF c = << >>
             THEN /\ caught' = Append(caught, IndexErrorList)
                  /\ pc' = "Fallback"
                  /\ UNCHANGED <<idx, final_responses>>
             ELSE IF c[1].kind # "text"
             THEN /\ caught' = Append(caught, KeyErrorText)
                  /\ pc' = "Fallback"
                  /\ UNCHANGED <<idx, final_responses>>
             ELSE /\ final_responses' = Append(final_responses, c[1].text)
                  /\ idx' = idx + 1
                  /\ pc' = "Blocks"
                  /\ UNCHANGED caught
    /\ UNCHANGED <<client, query, calls, result, sessionVars, reply, messages, directRuns,
                   toolOutcome>>
    /\ UNCHANGED <<serverVars, sample>>

\* a mutant of InnerHandler: the fallback's answer is appended to what was accumulated
InnerHandlerKeepsPartial(e, direct) ==
    Returned(JoinNL(Append(final_responses, direct.text)), direct.calls)

\* a mutant of InnerHandler: the caught exception is reported instead of the fallback
InnerHandlerSurfaces(e, direct) ==
    Returned(<<"Error in Bedrock API call: ">> \o e.msg, direct.calls)

\* the except clause of the model-handling block: lines 246-253
InnerHandler(e, direct) == direct

\* the except clause of process_query_with_llm: lines 255-259
LlmHandler(r) ==
    IF r.raised THEN Returned(<<"Error processing query: ">> \o r.exc.msg, r.calls) ELSE r

\* the fallback to process_query_direct(query)
LlmFallback ==
    /\ pc = "Fallback"
    /\ directRuns' = directRuns + 1
    /\ \E o \in SessionOutcomesDirect[BranchTool(DirectBranch(query))] :
          LET r == LlmHandler(InnerHandler(caught[Len(caught)],
                                           process_query_direct(query, o))) IN
          /\ calls' = calls \o Tagged(r.calls, "keyword")
          /\ result' = Done(r)
          /\ toolOutcome' = o
    /\ pc' = "Print"
    /\ UNCHANGED <<client, query, sessionVars, reply, idx, messages, final_responses,
                   converses, caught>>
    /\ UNCHANGED <<serverVars, sample>>

\* process_query(query) of the plain client
PlainProcess ==
    /\ pc = "Plain"
    /\ \E o \in SessionOutcomesDirect[BranchTool(DirectBranch(query))] :
          LET r == process_query(query, o) IN
          /\ calls' = Tagged(r.calls, "keyword")
          /\ result' = Done(r)
          /\ toolOutcome' = o
    /\ pc' = "Print"
    /\ UNCHANGED <<client, query, sessionVars, reply, idx, messages, final_responses,
                   converses, directRuns, caught>>
    /\ UNCHANGED <<serverVars, sample>>

\* the entry point has returned: print("\n" + response), and back to the head of the
\* loop; an exception it raised instead reaches the finally clause.  What the
\* query's processing held is discarded
PrintAnswer ==
    /\ pc = "Print"
    /\ IF result.raised
       THEN RaiseInSession(result.exc)
       ELSE pc' = "AwaitingInput" /\ UNCHANGED exitExc
    /\ DiscardQuery
    /\ UNCHANGED <<client, transport, closes, available_tools>>
    /\ UNCHANGED <<serverVars, sample>>

Processing == {"Converse", "Blocks", "ToolCall", "FollowUp", "Fallback", "Plain", "Print"}

\* Ctrl-C while a query is processed: a BaseException, which no handler catches
Interrupt ==
    /\ pc \in Processing
    /\ RaiseInSession(KeyboardInterrupt)
    /\ DiscardQuery
    /\ UNCHANGED <<client, transport, closes, available_tools>>
    /\ UNCHANGED <<serverVars, sample>>

\* the finally clause: close(), which unwinds the exit stack
Close ==
    /\ pc = "Finally"
    /\ closes' = closes + 1
    /\ transport' = IF transport = "open" THEN "released" ELSE transport
    /\ pc' = "Left"
    /\ UNCHANGED <<client, query, calls, result, exitExc, available_tools, llmVars>>
    /\ UNCHANGED <<serverVars, sample>>

Next ==
    \/ Connect
    \/ ReadInput
    \/ LlmConverse
    \/ LlmBlock
    \/ LlmCallTool
    \/ LlmFollowUp
    \/ LlmFallback
    \/ PlainProcess
    \/ PrintAnswer
    \/ Interrupt
    \/ Close

Spec == Init /\ [][Next]_vars

(***************************************************************************)
(* What the claims speak of.                                               *)
(***************************************************************************)
\* the tool-use blocks among the first n content blocks of the model's reply
ToolUsesUpTo(n) == {i \in 1..Len(reply) : i <= n /\ reply[i].kind = "toolUse"}

NumToolUse == Cardinality(ToolUsesUpTo(Len(reply)))

\* the model has replied to the query
GotReply == idx >= 1

CallsBy(by) == {i \in 1..Len(calls) : calls[i].by = by}

(***************************************************************************)
(* C2: for a reply with n tool-use blocks, model-directed dispatch makes   *)
(* at most 1 + n converse calls for the query, one follow-up per tool-use  *)
(* block reached, and the follow-up reply is never inspected for tool-use  *)
(* blocks: every tool the model-handling block calls is named by a         *)
(* tool-use block of the original reply.                                   *)
(***************************************************************************)
C2_OneFollowUpPerToolUse ==
    client = "agentic" =>
        /\ converses <= 1 + NumToolUse
        /\ converses <= 1 + Cardinality(ToolUsesUpTo(idx))
        /\ Cardinality(CallsBy("model")) <= Cardinality(ToolUsesUpTo(idx))
        /\ \A i \in CallsBy("model") :
              \E j \in ToolUsesUpTo(idx) : reply[j].name = calls[i].tool

\* a reply with two tool-use blocks has been answered with three converse calls
C2_Witness ==
    /\ client = "agentic" /\ pc = "Print" /\ result.done
    /\ NumToolUse = 2 /\ converses = 3 /\ directRuns = 0

(***************************************************************************)
(* C3: when the model's reply has no tool-use block, no call_tool request  *)
(* is issued for the query and the answer is the reply's text blocks       *)
(* joined in order.                                                        *)
(***************************************************************************)
RECURSIVE TextsOf(_)
TextsOf(blocks) ==
    IF blocks = << >> THEN << >>
    ELSE (IF Head(blocks).kind = "text" THEN <<Head(blocks).text>> ELSE << >>)
         \o TextsOf(Tail(blocks))

C3_NoToolUseNoCall ==
    client = "agentic" /\ GotReply /\ NumToolUse = 0 =>
        /\ calls = << >>
        /\ directRuns = 0
        /\ result.done => ~result.raised /\ result.text = JoinNL(TextsOf(reply))

\* a reply of a text block and a block of another kind has been answered
C3_Witness ==
    /\ client = "agentic" /\ pc = "Print" /\ result.done
    /\ GotReply /\ NumToolUse = 0 /\ Len(reply) = 2
    /\ \E i \in 1..2 : reply[i].kind = "other"
    /\ \E i \in 1..2 : reply[i].kind = "text"
    /\ calls = << >>

(***************************************************************************)
(* C4, as claimed: at most one call_tool request is issued per query and   *)
(* the conversation grows by at most one tool round-trip, whatever the     *)
(* model replies.                                                          *)
(***************************************************************************)
C4_AtMostOneToolInvocation ==
    client = "agentic" => Len(calls) <= 1 /\ Len(messages) <= 3

(***************************************************************************)
(* C4, amended: the model-handling block issues at most one call_tool      *)
(* request per tool-use block of the reply, keyword dispatch at most one   *)
(* more, and the conversation is the user's query followed by one round    *)
(* trip (the assistant's tool-request message, then the user's tool-result *)
(* message) per tool invocation that returned.                             *)
(***************************************************************************)
C4_OneRoundTripPerToolUse ==
    client = "agentic" =>
        /\ Cardinality(CallsBy("model")) <= NumToolUse
        /\ Cardinality(CallsBy("keyword")) <= 1
        /\ Len(messages) <= 1 + 2 * Cardinality(CallsBy("model"))
        /\ Len(messages) >= 2 * Cardinality(CallsBy("model")) - 1
        /\ \A i \in 1..Len(messages) :
              /\ i = 1 => messages[i].role = "user" /\ messages[i].content[1].kind = "text"
              /\ i > 1 /\ i % 2 = 0 =>
                    messages[i].role = "assistant" /\ messages[i].content = reply
              /\ i > 1 /\ i % 2 = 1 =>
                    /\ messages[i].role = "user"
                    /\ messages[i].content[1].kind = "toolResult"
                    /\ messages[i - 1].role = "assistant"

\* two tool-use blocks have each been invoked and added their round trip
C4_Witness ==
    /\ client = "agentic" /\ pc = "Print" /\ result.done
    /\ Cardinality(CallsBy("model")) = 2 /\ Len(messages) = 5

ShellExceptions == {NoExc, ValueErrorPy, ConnectFault, EOFError, KeyboardInterrupt}

C6_EntryPointsNeverRaise ==
    /\ result.done => ~result.raised /\ result.exc = NoExc
    /\ exitExc \in ShellExceptions
    /\ result.done /\ toolOutcome.raised /\ (client = "plain" \/ directRuns = 1) =>
          result.text = <<"Error processing query: ">> \o toolOutcome.exc.msg

\* the tool session has raised inside the keyword-dispatch fallback
C6_Witness ==
    /\ client = "agentic" /\ pc = "Print" /\ result.done
    /\ directRuns = 1 /\ toolOutcome = Raises(ToolFault)
    /\ result.text = <<"Error processing query: ">> \o ToolFault.msg

(***************************************************************************)
(* C7: interactive_session is never left without close() having run        *)
(* exactly once, whether it ends by exit/quit, by a failing connect (the   *)
(* ValueError of a path that is no .py file among them), by an exception   *)
(* of input() or by one escaping query processing; the transport is then   *)
(* released.                                                               *)
(***************************************************************************)
C7_TeardownUnconditional ==
    /\ closes <= 1
    /\ pc = "Left" => closes = 1 /\ transport # "open"
    /\ pc # "Left" => closes = 0

\* an exception has escaped query processing and the transport has been released
C7_Witness ==
    /\ pc = "Left" /\ exitExc = KeyboardInterrupt
    /\ closes = 1 /\ transport = "released"


(***************************************************************************)
(* The tool server: the event loop that runs the tool entry points, and    *)
(* thread_pool, which runs the fetches they submit.                        *)
(***************************************************************************)
PoolSize == 4

SubmitFault == Exc("RuntimeError", <<"can't start new thread">>)

ServerArgs == [headless |-> TRUE, take_screenshot |-> TRUE]

\* the requests a client can send
Requests ==
    {[method |-> "list_tools", tool |-> "", args |-> ServerArgs]}
    \cup {[method |-> "call_tool", tool |-> t, args |-> ServerArgs] :
            t \in {"get_hk_current_weather", "get_hk_weather_warnings"}}

\* what the browser automation can do during one fetch of the server
ServerExts(kind) ==
    {Ext("none", NoExc, CHOOSE r \in Responses(kind) : TRUE, NoExc, ScreenshotPath),
     Ext("setup", EmptyFault, VNull, NoExc, ScreenshotPath),
     Ext("exit", BrowserFault, VStr(<<"lost">>), NoExc, ScreenshotPath)}

Pending == [done |-> FALSE, raised |-> FALSE, exc |-> NoExc, v |-> VNull]

Completed(r) == [done |-> TRUE, raised |-> r.raised, exc |-> r.exc, v |-> r.v]

ToolList == VList([i \in 1..Len(Tools) |-> VStr(<<Tools[i]>>)])

Ids == 1..Len(requests)

InitServer ==
    /\ client = "none"
    /\ pc = "Serving"
    /\ query = << >>
    /\ SessionIdle
    /\ QueryIdle
    /\ ServerIdle

\* a request of the client reaches the server
Receive ==
    /\ Len(requests) < MaxRequests
    /\ \E r \in Requests :
        /\ requests' = Append(requests, r)
        /\ inbox' = Append(inbox, Len(requests) + 1)
    /\ UNCHANGED <<loop, queue, running, futures, responses, faults, submitted, started>>
    /\ UNCHANGED <<clientVars, sample>>

\* the event loop answers a list_tools request
ListTools ==
    /\ loop = 0
    /\ inbox # << >>
    /\ requests[Head(inbox)].method = "list_tools"
    /\ inbox' = Tail(inbox)
    /\ responses' = (Head(inbox) :> [raised |-> FALSE, exc |-> NoExc, v |-> ToolList])
                        @@ responses
    /\ UNCHANGED <<loop, queue, running, futures, requests, faults, submitted, started>>
    /\ UNCHANGED <<clientVars, sample>>

\* the event loop runs a tool entry point up to future.result()
ToolSubmit ==
    /\ loop = 0
    /\ inbox # << >>
    /\ requests[Head(inbox)].method = "call_tool"
    /\ inbox' = Tail(inbox)
    /\ LET id == Head(inbox) IN
       \E e \in {NoExc, SubmitFault} :
          IF e # NoExc
          THEN /\ responses' = (id :> ErrorData(ToolKind(requests[id].tool), e)) @@ responses
               /\ faults' = (id :> e) @@ faults
               /\ UNCHANGED <<loop, queue, futures, submitted>>
          ELSE /\ queue' = Append(queue, id)
               /\ submitted' = Append(submitted, id)
               /\ futures' = (id :> Pending) @@ futures
               /\ loop' = id
               /\ UNCHANGED <<responses, faults>>
    /\ UNCHANGED <<running, requests, started>>
    /\ UNCHANGED <<clientVars, sample>>

\* an idle worker thread of thread_pool takes the next fetch of the work queue
WorkerStart ==
    /\ queue # << >>
    /\ Cardinality(running) < PoolSize
    /\ running' = running \cup {Head(queue)}
    /\ started' = Append(started, Head(queue))
    /\ queue' = Tail(queue)
    /\ UNCHANGED <<inbox, loop, futures, responses, requests, faults, submitted>>
    /\ UNCHANGED <<clientVars, sample>>

\* a worker thread finishes its fetch and sets the future
WorkerFinish ==
    /\ \E id \in running :
        \E ext \in ServerExts(ToolKind(requests[id].tool)) :
            /\ futures' = [futures EXCEPT
                    ![id] = Completed(RunTool(requests[id].tool, requests[id].args, ext))]
            /\ faults' = IF ext.stage # "none" THEN (id :> ext.exc) @@ faults ELSE faults
            /\ running' = running \ {id}
    /\ UNCHANGED <<inbox, loop, queue, responses, requests, submitted, started>>
    /\ UNCHANGED <<clientVars, sample>>

\* a mutant of FutureResult: the result is read from a store shared by the invocations
FutureResultShared(id) ==
    futures[CHOOSE j \in DOMAIN futures : futures[j].done]

\* future.result() of the future the entry point submitted
FutureResult(id) == futures[id]

\* future.result() returns, and the tool entry point with it
ToolReturn ==
    /\ loop # 0
    /\ futures[loop].done
    /\ LET f == FutureResult(loop) IN
       responses' = (loop :> (IF f.raised THEN ErrorData(ToolKind(requests[loop].tool), f.exc)
                              ELSE [raised |-> FALSE, exc |-> NoExc, v |-> f.v]))
                        @@ responses
    /\ loop' = 0
    /\ UNCHANGED <<inbox, queue, running, futures, requests, faults, submitted, started>>
    /\ UNCHANGED <<clientVars, sample>>

NextServer ==
    \/ Receive
    \/ ListTools
    \/ ToolSubmit
    \/ WorkerStart
    \/ WorkerFinish
    \/ ToolReturn

SpecServer == InitServer /\ [][NextServer]_vars

CallIds == {id \in Ids : requests[id].method = "call_tool"}

Answered == DOMAIN responses

ErrorOf(id) == Get(responses[id].v, "error", VNull)

(***************************************************************************)
(* C8: every exception raised inside a fetch, or by the submission to the  *)
(* worker pool, becomes a returned failure result with success = false and *)
(* a non-empty error string.                                               *)
(***************************************************************************)
C8_FaultBecomesFailureWithError ==
    \A id \in Answered \cap DOMAIN faults :
        /\ ~responses[id].raised
        /\ Get(responses[id].v, "success", VNull) = VBool(FALSE)
        /\ ErrorOf(id).t = "str"
        /\ ErrorOf(id).s # << >>

(***************************************************************************)
(* C9: while a fetch is running on a worker thread, the server can begin   *)
(* to handle a request that has arrived.                                   *)
(***************************************************************************)
C9_ResponsiveDuringFetch ==
    (running # {} /\ inbox # << >>) => ENABLED (ListTools \/ ToolSubmit)

\* the entry points run one at a time, so at most one fetch is queued or executing
OneFetchAtATime ==
    /\ Len(queue) + Cardinality(running) <= 1
    /\ queue # << >> \/ running # {} => loop # 0

FetchSteps(take_screenshot, ext) ==
    IF ext.stage = "setup" THEN <<"setup">>
    ELSE IF ext.stage = "act" THEN <<"setup", "act">>
    ELSE <<"setup", "act">>
            \o (IF take_screenshot THEN <<"capture">> ELSE << >>)
            \o <<"exit">>

\* a tool entry point from its call to its return
ToolResult(tool, args, submit, ext) ==
    IF submit # NoExc THEN ErrorData(ToolKind(tool), submit)
    ELSE LET f == RunTool(tool, args, ext) IN
         IF f.raised THEN ErrorData(ToolKind(tool), f.exc) ELSE f

ToolArgs == [headless : BOOLEAN, take_screenshot : BOOLEAN]

InitFetch ==
    /\ client = "none"
    /\ pc = "Serving"
    /\ query = << >>
    /\ SessionIdle
    /\ QueryIdle
    /\ inbox = << >> /\ loop = 0 /\ queue = << >> /\ running = {}
    /\ futures = << >> /\ responses = << >> /\ requests = << >> /\ faults = << >>
    /\ submitted = << >> /\ started = << >>
    /\ \E tool \in {Tools[i] : i \in 1..Len(Tools)}, args \in ToolArgs,
          submit \in {NoExc, SubmitFault} :
        \E ext \in Exts(ToolKind(tool)) :
            sample = [done |-> FALSE, tool |-> tool, args |-> args,
                      submit |-> submit, ext |-> ext]

\* the tool is invoked and returns
InvokeTool ==
    /\ ~sample.done
    /\ sample' = [sample EXCEPT
            !.done = TRUE] @@
            [steps |-> IF sample.submit # NoExc THEN << >>
                       ELSE FetchSteps(sample.args.take_screenshot, sample.ext),
             out   |-> ToolResult(sample.tool, sample.args, sample.submit, sample.ext)]
    /\ UNCHANGED <<clientVars, serverVars>>

NextFetch == InvokeTool

SpecFetch == InitFetch /\ [][NextFetch]_vars

DataKeys == {"weather_data", "forecast_data", "warnings_data"}

SuccessOf(v) == Get(v, "success", VNull)

(***************************************************************************)
(* C11: every tool invocation returns one object with a boolean success    *)
(* field; when success is true the data field of the tool's category is    *)
(* present and no error field is; when success is false a string error     *)
(* field is present and no data field is.                                  *)
(***************************************************************************)
C11_ResultShape ==
    sample.done =>
        /\ ~sample.out.raised
        /\ IsDict(sample.out.v)
        /\ SuccessOf(sample.out.v).t = "bool"
        /\ SuccessOf(sample.out.v).b =>
              /\ HasKey(sample.out.v, DataKey(ToolKind(sample.tool)))
              /\ ~HasKey(sample.out.v, "error")
        /\ ~SuccessOf(sample.out.v).b =>
              /\ HasKey(sample.out.v, "error")
              /\ Get(sample.out.v, "error", VNull).t = "str"
              /\ \A k \in DataKeys : ~HasKey(sample.out.v, k)

\* a forecast fetch has failed in the extraction and returned the failure shape
C11_Witness ==
    /\ sample.done
    /\ sample.tool = "get_hk_forecast" /\ sample.submit = NoExc
    /\ sample.ext.stage = "act"
    /\ SuccessOf(sample.out.v) = VBool(FALSE)
    /\ Get(sample.out.v, "error", VNull) = VStr(BrowserFault.msg)

\* the extraction instruction of the fetch has returned
Extracted == sample.done /\ sample.submit = NoExc /\ sample.ext.stage \notin {"setup", "act"}

CaptureSteps == {i \in 1..Len(sample.steps) : sample.steps[i] = "capture"}

PathOf(v) == Get(v, "screenshot_path", VNull)

\* the screenshot policy of a fetch whose extraction has returned
ScreenshotPolicy ==
    /\ sample.args.take_screenshot =>
          /\ Cardinality(CaptureSteps) = 1
          /\ \A i \in CaptureSteps : i > 1 /\ sample.steps[i - 1] = "act"
          /\ sample.ext.shot = NoExc =>
                PathOf(sample.out.v).t = "str" /\ PathOf(sample.out.v).s # << >>
          /\ sample.ext.shot # NoExc =>
                /\ SuccessOf(sample.out.v) = VBool(TRUE)
                /\ HasKey(sample.out.v, DataKey(ToolKind(sample.tool)))
                /\ PathOf(sample.out.v) = VNull
    /\ ~sample.args.take_screenshot =>
          /\ CaptureSteps = {}
          /\ PathOf(sample.out.v) = VNull

(***************************************************************************)
(* C12 as stated: in every fetch whose extraction succeeded, a requested   *)
(* screenshot is attempted exactly once, after the extraction; a capture   *)
(* that succeeds gives a non-empty screenshot_path, a capture that fails   *)
(* leaves success = true with the data field and a null screenshot_path,   *)
(* and without the request no capture is attempted and the path is null.   *)
(***************************************************************************)
C12_ScreenshotPolicyAfterExtraction ==
    Extracted => ScreenshotPolicy

(***************************************************************************)
(* C12, amended: the same, for every fetch whose extraction succeeded and  *)
(* whose browser session then closed without raising.                      *)
(***************************************************************************)
C12_ScreenshotPolicyOfCompletedFetch ==
    Extracted /\ sample.ext.stage = "none" => ScreenshotPolicy

\* the capture of a requested screenshot has failed and the fetch has still succeeded
C12_Witness ==
    /\ Extracted /\ sample.ext.stage = "none"
    /\ sample.args.take_screenshot /\ sample.ext.shot = ShotFault
    /\ SuccessOf(sample.out.v) = VBool(TRUE)
    /\ PathOf(sample.out.v) = VNull


(***************************************************************************)
(* The response normalizer on its own, applied to every envelope shape.    *)
(***************************************************************************)
\* the values the tools return
ToolValues ==
    {ToolResult(tool, args, submit, ext).v :
        tool \in {"get_hk_current_weather", "get_hk_forecast"},
        args \in {DirectArgs, LlmArgs},
        submit \in {NoExc, SubmitFault},
        ext \in Exts("current") \cup Exts("forecast")}

\* the texts a content item can carry
Texts ==
    {JsonDumps(v) : v \in ToolValues}
    \cup {<< >>, <<"Error executing tool">>, <<"{", Quote, "success", Quote, ":">>,
          <<"[", "]">>, <<"null">>}

ImageItem == Item(FALSE, << >>)

Contents ==
    {<< >>, <<ImageItem>>, <<ImageItem, Item(TRUE, <<"null">>)>>}
    \cup {<<Item(TRUE, t)>> : t \in Texts}
    \cup {<<Item(TRUE, t), Item(TRUE, <<"[", "]">>)>> : t \in Texts}

Values == {VStr(<<"raw value">>), Failure(<<"from value">>)}

\* every shape of the result envelope of call_tool
Envelopes ==
    {Envelope(TRUE, c, FALSE, VNull) : c \in Contents}
    \cup {Envelope(TRUE, c, TRUE, v) : c \in Contents, v \in Values}
    \cup {Envelope(FALSE, << >>, TRUE, v) : v \in Values}
    \cup {Envelope(FALSE, << >>, FALSE, VNull)}

InitExtract ==
    /\ client \in {"agentic", "plain"}
    /\ pc = "Ready"
    /\ query = << >>
    /\ SessionIdle
    /\ QueryIdle
    /\ inbox = << >> /\ loop = 0 /\ queue = << >> /\ running = {}
    /\ futures = << >> /\ responses = << >> /\ requests = << >> /\ faults = << >>
    /\ submitted = << >> /\ started = << >>
    /\ \E e \in Envelopes : sample = [done |-> FALSE, env |-> e]

\* self.extract_response_data(tool_response)
Normalize ==
    /\ ~sample.done
    /\ sample' = [done |-> TRUE, env |-> sample.env,
                  out |-> extract_response_data(sample.env)]
    /\ UNCHANGED <<clientVars, serverVars>>

NextExtract == Normalize

SpecExtract == InitExtract /\ [][NextExtract]_vars

\* the envelope has a content list whose first element has a text attribute
FirstExposesText ==
    /\ sample.env.hasContent /\ sample.env.content # << >>
    /\ sample.env.content[1].hasText

FirstText == sample.env.content[1].text

CouldNotExtract == <<"Could not extract response data">>

\* the decision policy, step 1 applying when first holds
Policy(first) ==
    IF first
    THEN IF JsonLoads(FirstText).raised
         THEN /\ sample.out = Failure(JsonLoads(FirstText).msg)
              /\ sample.out # Failure(CouldNotExtract)
              /\ sample.env.hasValue => sample.out # sample.env.value
         ELSE sample.out = JsonLoads(FirstText).v
    ELSE IF sample.env.hasValue THEN sample.out = sample.env.value
    ELSE sample.out = Failure(CouldNotExtract)

(***************************************************************************)
(* C13 as stated: extract_response_data returns the first content          *)
(* element's text parsed as JSON whenever that element exposes text (a    *)
(* failure with the parse error when the text is not valid JSON), else the *)
(* value field when there is one, else the failure 'Could not extract      *)
(* response data'.                                                         *)
(***************************************************************************)
C13_NormalizerPolicy ==
    sample.done => Policy(FirstExposesText)

(***************************************************************************)
(* C13, amended: step 1 applies only when the first content element's     *)
(* text is not empty; an element with an empty text is passed over to the  *)
(* value field and the 'Could not extract response data' failure.          *)
(***************************************************************************)
C13_NormalizerPolicyNonEmptyText ==
    sample.done => Policy(FirstExposesText /\ FirstText # << >>)

\* a text that is not valid JSON has given the parse error although a value field exists
C13_Witness ==
    /\ sample.done
    /\ FirstExposesText /\ FirstText = <<"Error executing tool">>
    /\ sample.env.hasValue
    /\ sample.out = Failure(JsonErrorText)

(***************************************************************************)
(* C14: when the first content element's text is the JSON serialization of *)
(* a value a tool returns, extract_response_data returns exactly that      *)
(* value.                                                                  *)
(***************************************************************************)
C14_NormalizerRoundTrip ==
    \A v \in ToolValues :
        (sample.done /\ FirstExposesText /\ FirstText = JsonDumps(v)) => sample.out = v

\* a successful forecast result whose payload is itself JSON text has come back unchanged
C14_Witness ==
    /\ sample.done /\ FirstExposesText
    /\ IsDict(sample.out)
    /\ Get(sample.out, "success", VNull) = VBool(TRUE)
    /\ Get(sample.out, "forecast_data", VNull) = VStr(ForecastJson)
    /\ FirstText = JsonDumps(sample.out)


(***************************************************************************)
(* C20: the session shell.  No query is processed before connect has       *)
(* completed; a line that is exit or quit in any case ends the loop and is *)
(* never handed to query processing; every other line is handed over once  *)
(* and is the one query in flight until its answer has been printed, and   *)
(* only then is the next line read; the session ends closed.               *)
(***************************************************************************)
ExitWords == {<<"e","x","i","t">>, <<"q","u","i","t">>}

ShellStates == {"Disconnected", "AwaitingInput", "Finally", "Left"} \cup Processing

ShellInvariant ==
    /\ pc \in ShellStates
    /\ pc \in Processing =>
          /\ transport = "open"
          /\ query \in SessionLines
          /\ Lower(query) \notin ExitWords
    /\ pc \notin Processing => query = << >>

ShellStep ==
    /\ pc = "Disconnected" => pc' \in {"Disconnected", "AwaitingInput", "Finally"}
    /\ pc = "AwaitingInput" => pc' \in {"AwaitingInput", "Finally"} \cup Processing
    /\ pc \in Processing => pc' \in {"AwaitingInput", "Finally"} \cup Processing
    /\ pc = "Finally" => pc' \in {"Finally", "Left"}
    /\ pc = "Left" => pc' = "Left"
    /\ pc \in Processing /\ pc' \in Processing => query' = query
    /\ pc \in Processing /\ pc' = "AwaitingInput" => pc = "Print" /\ result.done
    /\ pc \notin Processing /\ pc' \in Processing => pc = "AwaitingInput"
    /\ pc' = "AwaitingInput" /\ pc # "AwaitingInput" =>
          \/ pc = "Disconnected" /\ transport' = "open"
          \/ pc = "Print"

C20_SessionShellStateMachine == []ShellInvariant /\ [][ShellStep]_vars

\* a line that is no exit word is the query in flight, at its tool call
C20_Witness ==
    /\ pc = "ToolCall" /\ client = "agentic"
    /\ query = LineWeek
    /\ transport = "open"

(***************************************************************************)
(* The start of a client process: the module-level code and main().        *)
(***************************************************************************)
\* a mutant of KeyMissing: the check of the API key is skipped
KeyMissingNever(key) == FALSE

\* `not NOVA_ACT_API_KEY` for the value os.getenv gives
KeyMissing(key) == key \in {"absent", "empty"}

KeyMessage == <<"Error: NOVA_ACT_API_KEY environment variable not set",
                "Please set it with: export NOVA_ACT_API_KEY=your_api_key">>

BedrockMessage == <<"Error initializing Bedrock client: ",
                    "Please ensure you have AWS credentials configured correctly">>

UsageMessage == <<"Usage: python <script> <server_script_path>">>

\* sys.exit(1) after the lines are printed
ExitWith(lines) ==
    /\ sample' = [sample EXCEPT !.output = lines, !.status = 1]
    /\ pc' = "Exited"

InitStartup ==
    /\ client \in {"agentic", "plain"}
    /\ pc = "Import"
    /\ query = << >>
    /\ SessionIdle
    /\ QueryIdle
    /\ inbox = << >> /\ loop = 0 /\ queue = << >> /\ running = {}
    /\ futures = << >> /\ responses = << >> /\ requests = << >> /\ faults = << >>
    /\ submitted = << >> /\ started = << >>
    /\ \E key \in {"absent", "empty", "set"}, argv \in BOOLEAN :
          sample = [done |-> FALSE, key |-> key, argv |-> argv, output |-> << >>,
                    status |-> 0, bedrock |-> "none"]

\* the check of NOVA_ACT_API_KEY
CheckKey ==
    /\ pc = "Import"
    /\ IF KeyMissing(sample.key) THEN ExitWith(KeyMessage)
       ELSE /\ pc' = IF client = "agentic" THEN "Bedrock" ELSE "Main"
            /\ UNCHANGED sample
    /\ UNCHANGED <<client, query, calls, result, sessionVars, llmVars>>
    /\ UNCHANGED serverVars

\* boto3.client(...) of the agentic assistant
InitBedrock ==
    /\ pc = "Bedrock"
    /\ \/ ExitWith(BedrockMessage)
       \/ /\ sample' = [sample EXCEPT !.bedrock = "created"]
          /\ pc' = "Main"
    /\ UNCHANGED <<client, query, calls, result, sessionVars, llmVars>>
    /\ UNCHANGED serverVars

\* main() up to the call of interactive_session
Main ==
    /\ pc = "Main"
    /\ IF ~sample.argv THEN ExitWith(UsageMessage)
       ELSE pc' = "Disconnected" /\ UNCHANGED sample
    /\ UNCHANGED <<client, query, calls, result, sessionVars, llmVars>>
    /\ UNCHANGED serverVars

NextStartup ==
    \/ CheckKey
    \/ InitBedrock
    \/ Main
    \/ Next

SpecStartup == InitStartup /\ [][NextStartup]_vars /\ WF_vars(CheckKey)

\* nothing has gone out to the model endpoint or to a server process
NoNetwork ==
    /\ sample.bedrock = "none"
    /\ transport = "none"
    /\ available_tools = << >>
    /\ converses = 0
    /\ calls = << >>

(***************************************************************************)
(* C19: a client started without the API key prints the explanation and    *)
(* exits with a non-zero status, and does so before the model-endpoint     *)
(* client is created, before the server is spawned and before any protocol *)
(* or model call.                                                          *)
(***************************************************************************)
C19_MissingKeyExitsBeforeNetwork ==
    /\ [](sample.key = "absent" =>
            /\ NoNetwork
            /\ pc \in {"Import", "Exited"}
            /\ pc = "Exited" => sample.status # 0 /\ sample.output = KeyMessage)
    /\ (sample.key = "absent" ~> pc = "Exited")

\* the agentic assistant has exited for the missing key
C19_Witness ==
    /\ client = "agentic" /\ sample.key = "absent"
    /\ pc = "Exited" /\ sample.status = 1
    /\ sample.output = KeyMessage /\ sample.bedrock = "none"


(***************************************************************************)
(* C21: when the model-handling block faults after a tool of the reply has *)
(* been invoked, keyword dispatch issues one further call_tool, chosen     *)
(* from the query text alone, and the answer is the keyword-dispatch       *)
(* answer: none of the text blocks and '[Calling tool ...]' markers        *)
(* accumulated before the fault is part of it.                             *)
(***************************************************************************)
FaultAfterToolCall ==
    /\ client = "agentic" /\ result.done
    /\ caught # << >>
    /\ CallsBy("model") # {}

\* the atoms of the texts and markers accumulated in final_responses
AccumulatedAtoms ==
    UNION {{final_responses[k][j] : j \in 1..Len(final_responses[k])} :
            k \in 1..Len(final_responses)}

ToolOfQuery ==
    CASE HasAny(query, CurrentKws)  -> "get_hk_current_weather"
      [] HasAny(query, ForecastKws) -> "get_hk_forecast"
      [] HasAny(query, WarningKws)  -> "get_hk_weather_warnings"
      [] OTHER                      -> "get_hk_current_weather"

C21_FaultAfterToolCallFallsBack ==
    FaultAfterToolCall =>
        /\ Cardinality(CallsBy("keyword")) = 1
        /\ calls[Len(calls)] = [tool |-> ToolOfQuery,
                                args |-> [headless |-> FALSE, take_screenshot |-> TRUE],
                                by |-> "keyword"]
        /\ result.text = IF toolOutcome.raised
                         THEN <<"Error processing query: ">> \o toolOutcome.exc.msg
                         ELSE DirectAnswer(DirectBranch(query), Normalized)
        /\ final_responses # << >>
        /\ \A i \in 1..Len(result.text) :
              /\ result.text[i] \notin AccumulatedAtoms
              /\ result.text[i] # "[Calling tool "

\* the model asked for the forecast, its follow-up reply held no text, and the query
\* was answered by the current-weather tool that its keyword selects
C21_Witness ==
    /\ FaultAfterToolCall /\ pc = "Print"
    /\ query = LineToday
    /\ caught = <<KeyErrorText>>
    /\ Len(calls) = 2
    /\ calls[1].tool = "get_hk_forecast" /\ calls[1].by = "model"
    /\ calls[2].tool = "get_hk_current_weather" /\ calls[2].by = "keyword"
    /\ result.text[1] = "Current Weather in Hong Kong:"


(***************************************************************************)
(* C22: on every query and every behaviour of the tool session the two     *)
(* keyword dispatchers issue the same call_tool request, and they return   *)
(* the same answer except for a successful forecast, where the plain       *)
(* client renders format_forecast_data(forecast_data), which is            *)
(* forecast_data itself when that is not JSON or lacks the                 *)
(* '9-day_weather_forecast' key.                                           *)
(***************************************************************************)
ByPlain  == process_query(query, toolOutcome)

ByDirect == process_query_direct(query, toolOutcome)

\* the forecast tool was selected and its normalized result n reports success
ForecastSuccess(n) ==
    /\ ~toolOutcome.raised
    /\ ToolOfQuery = "get_hk_forecast"
    /\ Succeeded(n)

ForecastData(n) == Get(n, "forecast_data", VStr(<<"No forecast data available">>))

NotForecastJson(x) ==
    \/ x.t # "str"
    \/ JsonLoads(x.s).raised
    \/ ~HasKey(JsonLoads(x.s).v, "9-day_weather_forecast")

C22_DispatchersEquivalent ==
    result.done =>
        LET p == ByPlain
            d == ByDirect
        IN  /\ result.text = IF client = "plain" THEN p.text ELSE d.text
            /\ calls = Tagged(p.calls, "keyword")
            /\ p.calls = d.calls
            /\ ~p.raised /\ ~d.raised
            /\ IF ~ForecastSuccess(Normalized) THEN p.text = d.text
               ELSE LET x == ForecastData(Normalized)
                        f == format_forecast_data(x)
                    IN  /\ p.text[1] = d.text[1]
                        /\ SubSeq(d.text, 3, 2 + Len(PyStr(x))) = PyStr(x)
                        /\ SubSeq(p.text, 3, 2 + Len(PyStr(f))) = PyStr(f)
                        /\ NotForecastJson(x) => f = x

\* the plain client has answered a forecast whose payload is no JSON: the payload is
\* rendered as it is, as the agentic assistant renders it
C22_Witness ==
    /\ result.done /\ client = "plain"
    /\ ForecastSuccess(Normalized)
    /\ ForecastData(Normalized) = VStr(<<"Mostly cloudy">>)
    /\ result.text[3] = "Mostly cloudy"
    /\ ByDirect.text[3] = "Mostly cloudy"
    /\ ByPlain.calls = ByDirect.calls

====
